---- MODULE Spec2Model ----
(***************************************************************************)
(* Model of the Asana release-notes generator (src/unnamed/part_003, the   *)
(* current revision of the script; src/index.js holds two older ones).     *)
(*                                                                         *)
(* One run of the script: environment check, prompt.get with its schema,   *)
(* the async callback (getTagId -> getTasks -> genNotes) and the           *)
(* un-awaited writers writeMD / writeHTML / writePDF, whose completions    *)
(* interleave freely with the render request.                              *)
(*                                                                         *)
(* JavaScript strings are sequences of one-character strings.  An id of    *)
(* the Asana API is a JSON value that is either a number or a string: it   *)
(* is the record [str |-> BOOLEAN, n |-> Nat], the string being the        *)
(* decimal digits of n.                                                    *)
(***************************************************************************)
EXTENDS Integers, Sequences, FiniteSets, TLC

VARIABLES
    env,        \* names of the environment variables that are set
    pc,         \* position of the script / of the prompt.get callback
    rejected,   \* number of inputs prompt.get has rejected so far
    result,     \* the result prompt.get handed to the callback, or Undefined
    netCalls,   \* the network calls issued so far (fetch)
    tagsData,   \* the tag list returned by GET /tags, or Undefined
    tagId,      \* the value getTagId computed (optional)
    queried,    \* the task list returned by GET /tasks, or Undefined
    fetched,    \* the array getTasks returned, as returned
    tasks,      \* the same array after createContent sorted it in place
    text,       \* the document createContent returned, or Undefined
    mkdirs,     \* number of mkdir calls issued
    htmlBody,   \* what render returned to genNotes (optional)
    md,         \* writeMD: "none", "pending", "ok", "failed"
    html,       \* writeHTML: "none", "pending", "ok", "failed"
    pdf,        \* writePDF: "none", "creating", "writing", "ok", "failed"
    issued,     \* the content each writer was called with: [md, html, pdf]
    files,      \* the content of the files on disk: [md, html, pdf]
    errors      \* the messages logged through logError

vars == <<env, pc, rejected, result, netCalls, tagsData, tagId, queried, fetched, tasks,
          text, mkdirs, htmlBody, md, html, pdf, issued, files, errors>>

\* an optional value: undefined is <<>>, the value v is <<v>>
Undefined == <<>>
Some(v) == <<v>>

(* ---------------------------- bounds ----------------------------------- *)
MaxRejects == 1
MaxTags == 2
MaxTasks == 3      \* length of the task lists the content builder is checked on
MaxRunTasks == 1   \* length of the task lists in the runs of the whole script

(* ------------------------ strings and ids ------------------------------ *)
Digit == {"0", "1", "2", "3", "4", "5", "6", "7", "8", "9"}

DigitChar(d) == <<"0", "1", "2", "3", "4", "5", "6", "7", "8", "9">>[d + 1]

\* UTF-16 code unit of a digit character
CharCode(c) == 47 + CHOOSE k \in 1..10 : DigitChar(k - 1) = c

RECURSIVE Digits(_)
\* `${n}`: the decimal digits of a number
Digits(n) == IF n < 10 THEN <<DigitChar(n)>>
             ELSE Append(Digits(n \div 10), DigitChar(n % 10))

JsNum(n) == [str |-> FALSE, n |-> n]
JsStr(n) == [str |-> TRUE, n |-> n]

\* `${id}` of an id: the digits, whether it came as a number or as a string
ToStr(id) == Digits(id.n)

RECURSIVE StrLess(_, _)
\* s < t on strings: by code units, a proper prefix being smaller
StrLess(s, t) ==
    IF t = <<>> THEN FALSE
    ELSE IF s = <<>> THEN TRUE
    ELSE IF CharCode(Head(s)) # CharCode(Head(t))
         THEN CharCode(Head(s)) < CharCode(Head(t))
         ELSE StrLess(Tail(s), Tail(t))

\* a < b of JavaScript: two strings compare as strings, anything else as numbers
JsLess(a, b) == IF a.str /\ b.str THEN StrLess(Digits(a.n), Digits(b.n))
                ELSE a.n < b.n

JsGreater(a, b) == JsLess(b, a)

(* --------------------------- configuration ----------------------------- *)
EnvNames == {"ASANA_ACCESS_TOKEN", "ASANA_API_VERSION", "ASANA_PROJECT_ID"}

\* process.env.ASANA_PROJECT_ID, a string
ASANA_PROJECT_ID == <<"7">>

(* ------------------------------ prompt --------------------------------- *)
IsDigits(s) == Len(s) >= 1 /\ \A i \in 1..Len(s) : s[i] \in Digit

\* /^\d+\.\d+\.\d+$/
VersionPatternUnanchored(s) ==
    \E a, b \in 1..Len(s) : \E i, j \in a..b :
        /\ i < j /\ s[i] = "." /\ s[j] = "."
        /\ IsDigits(SubSeq(s, a, i - 1))
        /\ IsDigits(SubSeq(s, i + 1, j - 1))
        /\ IsDigits(SubSeq(s, j + 1, b))

VersionPattern(s) ==
    \E i, j \in 1..Len(s) :
        /\ i < j /\ s[i] = "." /\ s[j] = "."
        /\ IsDigits(SubSeq(s, 1, i - 1))
        /\ IsDigits(SubSeq(s, i + 1, j - 1))
        /\ IsDigits(SubSeq(s, j + 1, Len(s)))

LowerChar(c) ==
    CASE c = "M" -> "m" [] c = "A" -> "a" [] c = "J" -> "j" [] c = "O" -> "o"
      [] c = "R" -> "r" [] c = "I" -> "i" [] c = "N" -> "n" [] c = "P" -> "p"
      [] c = "T" -> "t" [] c = "C" -> "c" [] c = "H" -> "h" [] OTHER -> c

\* String.prototype.toLowerCase
ToLowerCase(s) == [i \in 1..Len(s) |-> LowerChar(s[i])]

Major == <<"m", "a", "j", "o", "r">>
Minor == <<"m", "i", "n", "o", "r">>
Patch == <<"p", "a", "t", "c", "h">>

\* /^major$|^minor$|^patch$/i
TypePattern(t) == ToLowerCase(t) \in {Major, Minor, Patch}

\* what the operator passes with -v / -t or types at the prompt
VersionInputs ==
    { <<"1", ".", "5", ".", "0">>,
      <<"1", ".", "5">>,
      <<"v", "1", ".", "5", ".", "0">>,
      <<"1", ".", "5", ".", "0", "b">>,
      <<>> }

TypeInputs == { <<"M", "i", "n", "o", "r">>, <<"b", "o", "g", "u", "s">> }

(* --------------------------- API responses ----------------------------- *)
\* how a fetch can end: resolved with response.ok, resolved with another
\* status, or rejected (network failure; a body that does not parse)
Failures == {"status", "throw"}

TagNames == { <<"v", "1", ".", "5", ".", "0">>, <<"v", "1", ".", "5", ".", "1">> }
TagIds == {1, 2}
Tags == [id : TagIds, name : TagNames]

RECURSIVE SeqsUpTo(_, _)
SeqsUpTo(S, n) ==
    IF n = 0 THEN {<<>>}
    ELSE LET shorter == SeqsUpTo(S, n - 1)
         IN  shorter \cup {Append(s, x) : s \in {t \in shorter : Len(t) = n - 1}, x \in S}

TagLists == SeqsUpTo(Tags, MaxTags)

TaskIdNumbers == {2, 10}
TaskNames == {"a", "b"}
ProjectLists(str) ==
    LET V(n) == IF str THEN JsStr(n) ELSE JsNum(n)
    IN  { <<V(12), V(7)>>, <<V(12)>> }
TasksOf(str) ==
    [id : {IF str THEN JsStr(n) ELSE JsNum(n) : n \in TaskIdNumbers},
     name : TaskNames,
     projects : ProjectLists(str)]

\* the lists GET /tasks can return: ids all numbers or all strings
TaskListsUpTo(n) == SeqsUpTo(TasksOf(FALSE), n) \cup SeqsUpTo(TasksOf(TRUE), n)
TaskLists == TaskListsUpTo(MaxTasks)
RunTaskLists == TaskListsUpTo(MaxRunTasks)

\* the bodies the markdown service can return
HtmlBodies == {"", "<h1>"}

(* ------------------------------ getTagId ------------------------------- *)
RECURSIVE ScanTags(_, _, _)
\* data.forEach(({ id, name }) => { if (name === tag) { tagId = id; } })
ScanTags(data, tag, acc) ==
    IF data = <<>> THEN acc
    ELSE ScanTags(Tail(data), tag, IF Head(data).name = tag THEN Some(Head(data).id) ELSE acc)

(* ------------------------------ getTasks ------------------------------- *)
\* o.projects.find(oo => oo.id === ASANA_PROJECT_ID): no conversion to string
InProjectStrict(o) ==
    \E k \in 1..Len(o.projects) :
        o.projects[k].str /\ ToStr(o.projects[k]) = ASANA_PROJECT_ID

\* !!o.projects.find(oo => `${oo.id}` === ASANA_PROJECT_ID)
InProject(o) ==
    \E k \in 1..Len(o.projects) : ToStr(o.projects[k]) = ASANA_PROJECT_ID

\* data.filter(...)
FilterTasks(data) == SelectSeq(data, InProject)

(* ---------------------------- createContent ---------------------------- *)
\* ({ id: a }, { id: b }) => a < b ? 1 : (a > b ? -1 : 0)
CompareDescending(x, y) ==
    IF JsLess(x.id, y.id) THEN 1 ELSE IF JsGreater(x.id, y.id) THEN -1 ELSE 0

\* ({ id: a }, { id: b }) => a > b ? 1 : (a < b ? -1 : 0)
Compare(x, y) ==
    IF JsGreater(x.id, y.id) THEN 1 ELSE IF JsLess(x.id, y.id) THEN -1 ELSE 0

RECURSIVE Insert(_, _)
\* x goes behind every element that does not compare greater than it
Insert(s, x) ==
    IF s = <<>> THEN <<x>>
    ELSE IF Compare(Head(s), x) > 0 THEN <<x>> \o s
         ELSE <<Head(s)>> \o Insert(Tail(s), x)

RECURSIVE Sort(_)
\* Array.prototype.sort with the comparator: a stable sort
Sort(s) == IF s = <<>> THEN <<>> ELSE Insert(Sort(SubSeq(s, 1, Len(s) - 1)), s[Len(s)])

\* the line `* [\`${id}\`](${ASANA_PROJECT_URL}/${id}) - ${name}` of a task
Entry(t) == [id |-> ToStr(t.id), name |-> t.name]

\* the document: title, the three check boxes, one entry per task.  The
\* fixed lines, moment()'s time stamp and the removal of runs of spaces act
\* on characters the model does not hold.
createContent(version, type, ts) ==
    [ version |-> version,
      major |-> (type = Major), minor |-> (type = Minor), patch |-> (type = Patch),
      items |-> [i \in 1..Len(ts) |-> Entry(ts[i])] ]

\* wrapBody(body, fontSize) of ./template: the page around the (optional) body
wrapBody(body, fontSize) == [body |-> body, fontSize |-> fontSize]

(* ------------------------------- logging ------------------------------- *)
ErrEnv == "The .env file incomplete"
ErrTags == "An error occurred while resolving the version tag id"
ErrTagNotFound == "The tag was not found"
ErrTasks == "An error occurred while searching for tasks"
ErrRender == "An error occurred while rendering the markdown as HTML"
ErrMkdir == "An error occurred while creating the version directory"
ErrMD == "An error occurred while writing the markdown file"
ErrHTML == "An error occurred while writing the HTML file"
ErrPDF == "An error occurred while writing the PDF file"

\* a catch block that logs nothing
logNothing(msg) == {}

\* logError(msg): the line `error:   ${msg}`
logError(msg) == {<<msg>>}

(* ------------------------------- callAPI ------------------------------- *)
Outcomes == {"ok"} \cup Failures

\* the value callAPI returns and the lines it logs, for the way the fetch
\* ended and the body the parser produced
callAPI(outcome, body, errorMsg) ==
    [ value |-> IF outcome = "ok" THEN Some(body) ELSE Undefined,
      log |-> IF outcome = "status" THEN {<<errorMsg, "status">>}
              ELSE IF outcome = "throw" THEN logError(errorMsg)
              ELSE {} ]

(* --------------------------- the three stages -------------------------- *)
\* truthiness of an optional number / string / array length
TruthyNum(o) == o # Undefined /\ o[1] # 0
TruthyStr(o) == o # Undefined /\ o[1] # ""

\* getTagId(tag), given what callAPI returned: `const { data } = undefined`
\* throws a TypeError
getTagId(r, tag) ==
    LET data == IF r.value = Undefined THEN <<>> ELSE r.value[1]
        id == ScanTags(data, tag, Undefined)
    IN  [ threw |-> (r.value = Undefined),
          tagId |-> IF r.value = Undefined THEN Undefined ELSE id,
          log |-> r.log \cup
                  (IF r.value # Undefined /\ Len(data) > 0 /\ ~TruthyNum(id)
                   THEN logError(ErrTagNotFound) ELSE {}) ]

\* getTasks(tagId), given what callAPI returned: `const { data } = undefined || []`
\* leaves data undefined and data.filter throws a TypeError
getTasks(r) ==
    [ threw |-> (r.value = Undefined),
      tasks |-> IF r.value = Undefined THEN <<>> ELSE FilterTasks(r.value[1]),
      log |-> r.log ]

\* if (tagId) dropped
ProceedAlways(id) == TRUE

\* if (tagId) { getTasks ...; genNotes ... }
ProceedAfterTag(id) == TruthyNum(id)

\* if (htmlBody) dropped
WriteDerivedAlways(body) == TRUE

\* if (htmlBody) { writeHTML ...; writePDF ... }
WriteDerived(body) == TruthyStr(body)

NoFiles == [md |-> Undefined, html |-> Undefined, pdf |-> Undefined]

(* ------------------------------- the run ------------------------------- *)
Init ==
    /\ env \in SUBSET EnvNames
    /\ pc = "Startup"
    /\ rejected = 0
    /\ result = Undefined
    /\ netCalls = {}
    /\ tagsData = Undefined
    /\ tagId = Undefined
    /\ queried = Undefined
    /\ fetched = <<>>
    /\ tasks = <<>>
    /\ text = Undefined
    /\ mkdirs = 0
    /\ htmlBody = Undefined
    /\ md = "none"
    /\ html = "none"
    /\ pdf = "none"
    /\ issued = NoFiles
    /\ files = NoFiles
    /\ errors = {}

\* the check of process.env at the top of the script
Startup ==
    /\ pc = "Startup"
    /\ IF env = EnvNames
       THEN pc' = "Prompt" /\ errors' = errors
       ELSE pc' = "ConfigError" /\ errors' = errors \cup logError(ErrEnv)
    /\ UNCHANGED <<env, rejected, result, netCalls, tagsData, tagId, queried, fetched,
                   tasks, text, mkdirs, htmlBody, md, html, pdf, issued, files>>

\* prompt.get is given a version and a type (by -v / -t or at the prompt).
\* Both match their patterns: the callback runs with the result and getTagId
\* issues GET /tags.  Otherwise the input is rejected and asked for again.
PromptGet(v, t) ==
    /\ pc = "Prompt"
    /\ IF VersionPattern(v) /\ TypePattern(t)
       THEN /\ result' = Some([version |-> v, type |-> t])
            /\ netCalls' = netCalls \cup {"tags"}
            /\ pc' = "ResolvingTag"
            /\ UNCHANGED rejected
       ELSE /\ rejected < MaxRejects
            /\ rejected' = rejected + 1
            /\ UNCHANGED <<result, netCalls, pc>>
    /\ UNCHANGED <<env, tagsData, tagId, queried, fetched, tasks, text, mkdirs, htmlBody,
                   md, html, pdf, issued, files, errors>>

\* prompt.get gives up (the operator interrupts it): callback(err, undefined)
PromptCancel ==
    /\ pc = "Prompt"
    /\ pc' = "Cancelled"
    /\ UNCHANGED <<env, rejected, result, netCalls, tagsData, tagId, queried, fetched,
                   tasks, text, mkdirs, htmlBody, md, html, pdf, issued, files, errors>>

\* GET /tags ends; getTagId returns or throws; the callback goes on to
\* getTasks, which issues GET /tasks, when the tag id is truthy
TagsResponse(outcome, body) ==
    /\ pc = "ResolvingTag"
    /\ LET r == getTagId(callAPI(outcome, body, ErrTags), <<"v">> \o result[1].version)
       IN  /\ tagsData' = IF outcome = "ok" THEN Some(body) ELSE Undefined
           /\ errors' = errors \cup r.log
           /\ tagId' = r.tagId
           /\ IF r.threw
              THEN pc' = "getTagId threw" /\ UNCHANGED netCalls
              ELSE IF ProceedAfterTag(r.tagId)
                   THEN pc' = "FetchingTasks" /\ netCalls' = netCalls \cup {"tasks"}
                   ELSE pc' = "NoTag" /\ UNCHANGED netCalls
    /\ UNCHANGED <<env, rejected, result, queried, fetched, tasks, text, mkdirs, htmlBody,
                   md, html, pdf, issued, files>>

\* GET /tasks ends; getTasks returns or throws; genNotes builds the content
\* (sorting the array in place) and issues mkdir
TasksResponse(outcome, body) ==
    /\ pc = "FetchingTasks"
    /\ LET r == getTasks(callAPI(outcome, body, ErrTasks))
       IN  /\ queried' = IF outcome = "ok" THEN Some(body) ELSE Undefined
           /\ errors' = errors \cup r.log
           /\ IF r.threw
              THEN pc' = "getTasks threw" /\ UNCHANGED <<fetched, tasks, text, mkdirs>>
              ELSE /\ fetched' = r.tasks
                   /\ tasks' = Sort(r.tasks)
                   /\ text' = Some(createContent(result[1].version,
                                                 ToLowerCase(result[1].type),
                                                 Sort(r.tasks)))
                   /\ mkdirs' = mkdirs + 1
                   /\ pc' = "Mkdir"
    /\ UNCHANGED <<env, rejected, result, netCalls, tagsData, tagId, htmlBody,
                   md, html, pdf, issued, files>>

\* mkdir ends, with render called ahead of writeMD (the order of the first
\* revision, src/index.js:85-88): the POST is issued, no write yet
MkdirDoneRenderFirst(ok) ==
    /\ pc = "Mkdir"
    /\ IF ok
       THEN /\ netCalls' = netCalls \cup {"render"}
            /\ pc' = "Rendering"
            /\ UNCHANGED errors
       ELSE /\ errors' = errors \cup logError(ErrMkdir)
            /\ pc' = "MkdirFailed"
            /\ UNCHANGED netCalls
    /\ UNCHANGED <<env, rejected, result, tagsData, tagId, queried, fetched, tasks,
                   text, mkdirs, htmlBody, md, issued, html, pdf, files>>

\* mkdir ends.  Failure: genNotes logs and returns.  Success: writeMD is
\* called (writeFile issued, not awaited) and render issues its POST.
MkdirDone(ok) ==
    /\ pc = "Mkdir"
    /\ IF ok
       THEN /\ md' = "pending"
            /\ issued' = [issued EXCEPT !.md = text]
            /\ netCalls' = netCalls \cup {"render"}
            /\ pc' = "Rendering"
            /\ UNCHANGED errors
       ELSE /\ errors' = errors \cup logError(ErrMkdir)
            /\ pc' = "MkdirFailed"
            /\ UNCHANGED <<md, issued, netCalls>>
    /\ UNCHANGED <<env, rejected, result, tagsData, tagId, queried, fetched, tasks,
                   text, mkdirs, htmlBody, html, pdf, files>>

\* the POST to the markdown service ends; genNotes calls writeHTML and
\* writePDF when the body is truthy, and returns
RenderResponse(outcome, body) ==
    /\ pc = "Rendering"
    /\ LET r == callAPI(outcome, body, ErrRender)
       IN  /\ errors' = errors \cup r.log
           /\ htmlBody' = r.value
           /\ IF WriteDerived(r.value)
              THEN /\ html' = "pending"
                   /\ pdf' = "creating"
                   /\ issued' = [issued EXCEPT !.html = Some(wrapBody(r.value, 16)),
                                               !.pdf = Some(wrapBody(r.value, 12))]
              ELSE UNCHANGED <<html, pdf, issued>>
    /\ pc' = "Returned"
    /\ UNCHANGED <<env, rejected, result, netCalls, tagsData, tagId, queried, fetched,
                   tasks, text, mkdirs, md, files>>

\* writeFile of writeMD ends
MdWriteDone(ok) ==
    /\ md = "pending"
    /\ IF ok
       THEN md' = "ok" /\ files' = [files EXCEPT !.md = issued.md] /\ UNCHANGED errors
       ELSE md' = "failed" /\ errors' = errors \cup logError(ErrMD) /\ UNCHANGED files
    /\ UNCHANGED <<env, pc, rejected, result, netCalls, tagsData, tagId, queried, fetched,
                   tasks, text, mkdirs, htmlBody, html, pdf, issued>>

\* writeFile of writeHTML ends
HtmlWriteDone(ok) ==
    /\ html = "pending"
    /\ IF ok
       THEN html' = "ok" /\ files' = [files EXCEPT !.html = issued.html] /\ UNCHANGED errors
       ELSE html' = "failed" /\ errors' = errors \cup logError(ErrHTML) /\ UNCHANGED files
    /\ UNCHANGED <<env, pc, rejected, result, netCalls, tagsData, tagId, queried, fetched,
                   tasks, text, mkdirs, htmlBody, md, pdf, issued>>

\* htmlPdf.create of writePDF ends; pdf.toFile is issued when it succeeded
PdfCreateDone(ok) ==
    /\ pdf = "creating"
    /\ IF ok
       THEN pdf' = "writing" /\ UNCHANGED errors
       ELSE pdf' = "failed" /\ errors' = errors \cup logError(ErrPDF)
    /\ UNCHANGED <<env, pc, rejected, result, netCalls, tagsData, tagId, queried, fetched,
                   tasks, text, mkdirs, htmlBody, md, html, issued, files>>

\* pdf.toFile of writePDF ends
PdfToFileDone(ok) ==
    /\ pdf = "writing"
    /\ IF ok
       THEN pdf' = "ok" /\ files' = [files EXCEPT !.pdf = issued.pdf] /\ UNCHANGED errors
       ELSE pdf' = "failed" /\ errors' = errors \cup logError(ErrPDF) /\ UNCHANGED files
    /\ UNCHANGED <<env, pc, rejected, result, netCalls, tagsData, tagId, queried, fetched,
                   tasks, text, mkdirs, htmlBody, md, html, issued>>

Next ==
    \/ Startup
    \/ \E v \in VersionInputs, t \in TypeInputs : PromptGet(v, t)
    \/ PromptCancel
    \/ \E o \in Outcomes : \E b \in (IF o = "ok" THEN TagLists ELSE {<<>>}) : TagsResponse(o, b)
    \/ \E o \in Outcomes : \E b \in (IF o = "ok" THEN RunTaskLists ELSE {<<>>}) : TasksResponse(o, b)
    \/ \E ok \in BOOLEAN : MkdirDone(ok)
    \/ \E o \in Outcomes : \E b \in (IF o = "ok" THEN HtmlBodies ELSE {""}) : RenderResponse(o, b)
    \/ \E ok \in BOOLEAN : MdWriteDone(ok)
    \/ \E ok \in BOOLEAN : HtmlWriteDone(ok)
    \/ \E ok \in BOOLEAN : PdfCreateDone(ok)
    \/ \E ok \in BOOLEAN : PdfToFileDone(ok)

Spec == Init /\ [][Next]_vars

(* ------------------- the task stage on longer lists -------------------- *)
\* the run is waiting for GET /tasks, the tag v1.5.0 having resolved to 1
InitTasks ==
    /\ env = EnvNames
    /\ pc = "FetchingTasks"
    /\ rejected = 0
    /\ result = Some([version |-> <<"1", ".", "5", ".", "0">>,
                      type |-> <<"M", "i", "n", "o", "r">>])
    /\ netCalls = {"tags", "tasks"}
    /\ tagsData = Some(<<[id |-> 1, name |-> <<"v", "1", ".", "5", ".", "0">>]>>)
    /\ tagId = Some(1)
    /\ queried = Undefined
    /\ fetched = <<>>
    /\ tasks = <<>>
    /\ text = Undefined
    /\ mkdirs = 0
    /\ htmlBody = Undefined
    /\ md = "none"
    /\ html = "none"
    /\ pdf = "none"
    /\ issued = NoFiles
    /\ files = NoFiles
    /\ errors = {}

NextTasks ==
    \E o \in Outcomes : \E b \in (IF o = "ok" THEN TaskLists ELSE {<<>>}) : TasksResponse(o, b)

SpecTasks == InitTasks /\ [][NextTasks]_vars

(* ------------------------------- typing -------------------------------- *)
TypeOK ==
    /\ env \subseteq EnvNames
    /\ pc \in {"Startup", "ConfigError", "Prompt", "Cancelled", "ResolvingTag",
               "getTagId threw", "NoTag", "FetchingTasks", "getTasks threw",
               "Mkdir", "MkdirFailed", "Rendering", "Returned"}
    /\ rejected \in 0..MaxRejects
    /\ netCalls \subseteq {"tags", "tasks", "render"}
    /\ md \in {"none", "pending", "ok", "failed"}
    /\ html \in {"none", "pending", "ok", "failed"}
    /\ pdf \in {"none", "creating", "writing", "ok", "failed"}

(* ------------------------- stages of the run --------------------------- *)
\* getTagId has finished (returned or thrown)
ResolutionOver == "tags" \in netCalls /\ pc # "ResolvingTag"
\* GET /tags failed: callAPI returned undefined
TagsCallFailed == ResolutionOver /\ tagsData = Undefined
\* the name getTagId looked for
WantedTag == <<"v">> \o result[1].version
\* GET /tags succeeded and no tag of the list has the wanted name
TagAbsent ==
    /\ ResolutionOver /\ tagsData # Undefined
    /\ \A i \in 1..Len(tagsData[1]) : tagsData[1][i].name # WantedTag
\* getTasks has finished (returned or thrown)
FetchOver == "tasks" \in netCalls /\ pc # "FetchingTasks"
\* GET /tasks failed: callAPI returned undefined
TasksCallFailed == FetchOver /\ queried = Undefined
\* genNotes got past render with a body that lets it write the derived files
Rendered == pc = "Returned" /\ htmlBody # Undefined /\ htmlBody[1] # ""
\* genNotes got past render without such a body
RenderFailed == pc = "Returned" /\ ~(htmlBody # Undefined /\ htmlBody[1] # "")
\* nothing of the run is left to happen
Terminated ==
    /\ pc \in {"ConfigError", "Cancelled", "getTagId threw", "NoTag", "getTasks threw",
               "MkdirFailed", "Returned"}
    /\ md # "pending" /\ html # "pending" /\ pdf \notin {"creating", "writing"}

(* ------------------------------- claims -------------------------------- *)

\* C1: once tag resolution has ended without a tag id (GET /tags failed, or
\* no tag is named v{version}), no mkdir has been issued, no writer has been
\* called and no file exists: the run creates nothing.
C1_NoTagNoOutput ==
    (ResolutionOver /\ ~TruthyNum(tagId)) =>
        /\ mkdirs = 0
        /\ md = "none" /\ html = "none" /\ pdf = "none"
        /\ issued = NoFiles /\ files = NoFiles
        /\ netCalls = {"tags"}

C1_Witness ==
    /\ TagAbsent /\ Len(tagsData[1]) > 0 /\ pc = "NoTag" /\ tagId = Undefined

\* C2: when the tag resolved, mkdir succeeded and render came back empty,
\* writeMD has been called with exactly the text createContent returned,
\* neither writeHTML nor writePDF has been called, and the only file that
\* can exist is the Markdown file, holding that text.
C2_RenderFailureKeepsMarkdown ==
    RenderFailed =>
        /\ text # Undefined
        /\ md # "none" /\ issued.md = text
        /\ html = "none" /\ pdf = "none"
        /\ issued.html = Undefined /\ issued.pdf = Undefined
        /\ files.html = Undefined /\ files.pdf = Undefined
        /\ files.md \in {Undefined, text}
        /\ (md = "ok" => files.md = text)

C2_Witness ==
    /\ RenderFailed /\ htmlBody = Undefined /\ md = "ok" /\ files.md = text
    /\ Len(text[1].items) > 0

\* C3: getTasks never raises: when GET /tasks has failed, getTasks has
\* returned an empty array and the run has built a document with no task
\* entries and gone on to create the directory.
C3_GetTasksNeverRaises ==
    TasksCallFailed =>
        /\ pc # "getTasks threw"
        /\ text # Undefined
        /\ text[1].items = <<>>
        /\ mkdirs = 1

\* C4: getTagId returns no tag id without raising, both when GET /tags has
\* failed and when no tag has the wanted name: the callback gets undefined
\* and ends quietly.
C4_GetTagIdNeverRaises ==
    (TagsCallFailed \/ TagAbsent) => (pc = "NoTag" /\ tagId = Undefined)

\* C5: no error is silent: a run whose tag resolution ended without a tag id
\* has logged an error line, and "tag not found" has been logged exactly
\* when GET /tags succeeded and no tag has the wanted name, the empty list
\* included.
C5_TagErrorsLogged ==
    ResolutionOver =>
        /\ (~TruthyNum(tagId) => errors # {})
        /\ (<<ErrTagNotFound>> \in errors <=> TagAbsent)

\* C6: the three writes are independent.  Once render has succeeded all three
\* writers have been called, whatever became of the others; a writer that
\* failed has logged its error; a file exists, with the content its writer was
\* given, exactly when its own write succeeded; and no step removes or
\* changes a file that has been written.
C6_WritesIndependent ==
    /\ [](Rendered =>
            /\ md # "none" /\ html # "none" /\ pdf # "none"
            /\ issued.md # Undefined /\ issued.html # Undefined /\ issued.pdf # Undefined
            /\ (md = "failed" => <<ErrMD>> \in errors)
            /\ (html = "failed" => <<ErrHTML>> \in errors)
            /\ (pdf = "failed" => <<ErrPDF>> \in errors)
            /\ files.md = (IF md = "ok" THEN issued.md ELSE Undefined)
            /\ files.html = (IF html = "ok" THEN issued.html ELSE Undefined)
            /\ files.pdf = (IF pdf = "ok" THEN issued.pdf ELSE Undefined))
    /\ [][ /\ (files.md # Undefined => files'.md = files.md)
           /\ (files.html # Undefined => files'.html = files.html)
           /\ (files.pdf # Undefined => files'.pdf = files.pdf)
           /\ (md \in {"ok", "failed"} => md' = md)
           /\ (html \in {"ok", "failed"} => html' = html)
           /\ (pdf \in {"ok", "failed"} => pdf' = pdf) ]_vars

\* the HTML write succeeded between two failures
C6_Witness ==
    /\ Rendered /\ Terminated
    /\ md = "failed" /\ html = "ok" /\ pdf = "failed"
    /\ files.html = issued.html /\ files.md = Undefined

\* a string of digits and dots with exactly two dots, none of them first,
\* last or next to another one
IsXYZ(s) ==
    /\ Len(s) >= 5
    /\ \A i \in 1..Len(s) : s[i] \in Digit \cup {"."}
    /\ Cardinality({i \in 1..Len(s) : s[i] = "."}) = 2
    /\ s[1] # "." /\ s[Len(s)] # "."
    /\ \A i \in 1..(Len(s) - 1) : ~(s[i] = "." /\ s[i + 1] = ".")

\* C9: no network call is issued before a version of the form
\* digits.digits.digits has been accepted: while the script is at the
\* prompt (or has stopped there) no call has been issued, and once a call
\* has been issued the version handed to getTagId has that form.
C9_NoCallBeforeValidVersion ==
    /\ (pc \in {"Startup", "ConfigError", "Prompt", "Cancelled"} =>
            netCalls = {} /\ result = Undefined)
    /\ (netCalls # {} => result # Undefined /\ IsXYZ(result[1].version))

\* an input has been rejected and a later one accepted
C9_Witness == rejected > 0 /\ "tags" \in netCalls /\ result # Undefined

\* C10: a run whose tag resolved never aborts: when nothing is left to
\* happen, genNotes has run to its end and writeMD has been called.
C10_OnlyResolutionAborts ==
    (Terminated /\ TruthyNum(tagId)) => (pc = "Returned" /\ md # "none")

\* the task has the configured project among its projects
Member(t) == ASANA_PROJECT_ID \in {Digits(t.projects[k].n) : k \in DOMAIN t.projects}

\* the entries of the document are fetched[p[1]], fetched[p[2]], ...
ListedAs(p) ==
    /\ Len(text[1].items) = Len(fetched)
    /\ \A i \in 1..Len(fetched) :
          /\ text[1].items[i].id = Digits(fetched[p[i]].id.n)
          /\ text[1].items[i].name = fetched[p[i]].name

\* C7 as stated: the entries of the document are a permutation of the tasks
\* given to createContent, ascending by id under string comparison of the
\* ids, tasks of equal id in their input order.
C7_SortedAsStrings ==
    text # Undefined =>
        \E p \in Permutations(1..Len(fetched)) :
            /\ ListedAs(p)
            /\ \A i, j \in 1..Len(fetched) : i < j =>
                  \/ StrLess(Digits(fetched[p[i]].id.n), Digits(fetched[p[j]].id.n))
                  \/ /\ fetched[p[i]].id.n = fetched[p[j]].id.n
                     /\ p[i] < p[j]

\* C7 as amended: the entries of the document are a permutation of the tasks
\* given to createContent, ascending by id under the < of JavaScript on the
\* ids as the API delivered them (by code units when they are strings, by
\* value when they are numbers), tasks of equal id in their input order.
C7_SortedByJsOrder ==
    text # Undefined =>
        \E p \in Permutations(1..Len(fetched)) :
            /\ ListedAs(p)
            /\ \A i, j \in 1..Len(fetched) : i < j =>
                  \/ IF fetched[p[i]].id.str
                     THEN StrLess(Digits(fetched[p[i]].id.n), Digits(fetched[p[j]].id.n))
                     ELSE fetched[p[i]].id.n < fetched[p[j]].id.n
                  \/ /\ fetched[p[i]].id.n = fetched[p[j]].id.n
                     /\ p[i] < p[j]

\* three tasks that had to be moved, two of them with one id and two names
C7_Witness ==
    /\ text # Undefined /\ Len(fetched) = 3 /\ tasks # fetched
    /\ \E i, j \in 1..3 : /\ i < j /\ fetched[i].id = fetched[j].id
                          /\ fetched[i].name # fetched[j].name

\* C8: getTasks returns exactly the tasks of the response that belong to
\* the configured project, in the order of the response, and the document
\* lists each entry as often as such tasks produce it: a task outside the
\* project is in neither, a task inside it is in both.
C8_OnlyProjectTasks ==
    (queried # Undefined /\ FetchOver) =>
        LET q == queried[1]
            kept == {i \in 1..Len(q) : Member(q[i])}
        IN  /\ Len(fetched) = Cardinality(kept)
            /\ \A i \in 1..Len(fetched) : Member(fetched[i])
            /\ \E f \in [1..Len(fetched) -> kept] :
                  /\ \A i, j \in 1..Len(fetched) : i < j => f[i] < f[j]
                  /\ \A i \in 1..Len(fetched) : fetched[i] = q[f[i]]
            /\ text # Undefined
            /\ \A id \in {Digits(n) : n \in TaskIdNumbers}, name \in TaskNames :
                  Cardinality({i \in 1..Len(text[1].items) :
                                  text[1].items[i] = [id |-> id, name |-> name]})
                  = Cardinality({i \in kept : Digits(q[i].id.n) = id /\ q[i].name = name})

\* a response with a task of the project between tasks outside it, the ids
\* being numbers
C8_Witness ==
    /\ queried # Undefined /\ FetchOver
    /\ Len(queried[1]) = 3 /\ Len(fetched) = 1
    /\ Member(queried[1][2]) /\ ~queried[1][2].id.str

\* C11 as stated: one stage in flight at a time: the render request is not
\* issued until the Markdown write has completed, so the write and the
\* request are never pending together.
C11_OneStageInFlight == ~(pc = "Rendering" /\ md = "pending")

\* C11 as amended: the render request is issued only after the Markdown
\* write has been issued, with the text of the document, but without waiting
\* for it to complete; while the request is pending the HTML and PDF writers
\* have not been called, and the script is waiting for nothing else.
C11_RenderAfterMarkdownIssued ==
    /\ ("render" \in netCalls =>
            /\ md # "none" /\ issued.md # Undefined /\ issued.md = text
            /\ mkdirs = 1)
    /\ (pc = "Rendering" =>
            /\ "render" \in netCalls
            /\ html = "none" /\ pdf = "none"
            /\ issued.html = Undefined /\ issued.pdf = Undefined
            /\ htmlBody = Undefined)

\* the render request and the Markdown write are pending together
C11_Witness ==
    /\ pc = "Rendering" /\ "render" \in netCalls
    /\ md = "pending" /\ issued.md = text /\ files.md = Undefined

====
